---- MODULE Spec2Model ----
(***************************************************************************)
(* The bmDub contact-form API: an Express application that gates           *)
(* POST /contact by CORS, parses the JSON body, rate-limits per address,   *)
(* validates the submission and relays it by mail (SMTP, or the Brevo HTTP *)
(* API in the variant that supports it).                                   *)
(*                                                                         *)
(* The repository holds three variants of server.js; the variable `file`   *)
(* says which one the process runs:                                        *)
(*   "server.js"  src/server.js          SMTP only                         *)
(*   "part_000"   src/unnamed/part_000   SMTP only, the earliest variant   *)
(*   "part_001"   src/unnamed/part_001   Brevo HTTP API, SMTP as fallback  *)
(*                                                                         *)
(* Text that the code inspects character by character (form fields, mail   *)
(* addresses, subjects) is a sequence of one-character strings, so that    *)
(* trim(), the e-mail pattern and the address extraction are computed.     *)
(* Origins and response texts are only compared for equality and are       *)
(* plain strings.                                                          *)
(***************************************************************************)
EXTENDS Integers, Sequences, FiniteSets

VARIABLES
    file,         \* which variant of server.js the process runs
    env,          \* process.env: which mail settings are present
    phase,        \* "boot" | "serving" | "exited"
    exitCode,     \* process exit code, -1 while the process lives
    transporter,  \* "null" | "smtp": the nodemailer transport
    store,        \* the limiter's memory store: address -> hits and window
    cur,          \* the POST /contact exchange being followed
    limited       \* history: the addresses that were answered 429 so far

vars == <<file, env, phase, exitCode, transporter, store, cur, limited>>

-----------------------------------------------------------------------------
(* Bounds of the model *)

\* hits counted for one address in one window before the model stops sending
MaxHits == 7
\* clock resolution: the model's clock advances by windowMs / TicksPerWindow
TicksPerWindow == 2

-----------------------------------------------------------------------------
(* JavaScript strings and values *)

\* the characters String.prototype.trim() and the pattern's \s remove
WS == {" ", "\t", "\n"}

RECURSIVE trimStart(_)
trimStart(s) == IF s # <<>> /\ Head(s) \in WS THEN trimStart(Tail(s)) ELSE s

RECURSIVE trimEnd(_)
trimEnd(s) ==
    IF s # <<>> /\ s[Len(s)] \in WS THEN trimEnd(SubSeq(s, 1, Len(s) - 1)) ELSE s

trim(s) == trimEnd(trimStart(s))

\* a JSON value of the request body: t is its JavaScript type, s is String(value)
Undefined == [t |-> "undefined", s |-> <<"u","n","d","e","f","i","n","e","d">>]
Str(s) == [t |-> "string", s |-> s]
False == [t |-> "boolean", s |-> <<"f","a","l","s","e">>]

Truthy(v) == v.t = "string" /\ v.s # <<>>
Nullish(v) == v.t = "undefined"
StringOf(v) == v.s

\* server.js, part_000: String(s || '').toString().trim()
sanitizeServer(v) == trim(StringOf(IF Truthy(v) THEN v ELSE Str(<<>>)))

\* part_001: String(s ?? '').trim()
sanitizeBrevo(v) == trim(StringOf(IF Nullish(v) THEN Str(<<>>) ELSE v))

sanitize(v) == IF file = "part_001" THEN sanitizeBrevo(v) ELSE sanitizeServer(v)

\* /^[^\s@]+@[^\s@]+\.[^\s@]+$/ : one "@", no white space, a dot inside the
\* part after the "@" with a character on either side of it
isEmail(s) ==
    \E i \in 2..Len(s) :
        /\ s[i] = "@"
        /\ \A k \in 1..Len(s) : k # i => s[k] \notin (WS \cup {"@"})
        /\ \E j \in (i + 2)..(Len(s) - 1) : s[j] = "."

\* the index of the first ">" of s after position i, 0 when there is none
RECURSIVE closing(_, _)
closing(s, i) ==
    IF i >= Len(s) THEN 0
    ELSE IF s[i + 1] = ">" THEN i + 1
    ELSE closing(s, i + 1)

\* /<([^>]+)>/.exec(val): the leftmost "<" followed by a non-empty run without
\* ">" and then a ">"; 0 when the pattern does not match from position i on
RECURSIVE opening(_, _)
opening(s, i) ==
    IF i > Len(s) THEN 0
    ELSE IF s[i] = "<" /\ closing(s, i) > i + 1 THEN i
    ELSE opening(s, i + 1)

\* (m && m[1]) || val
extractEmail(s) ==
    IF opening(s, 1) = 0 THEN s
    ELSE SubSeq(s, opening(s, 1) + 1, closing(s, opening(s, 1)) - 1)

-----------------------------------------------------------------------------
(* Configuration *)

Files == {"server.js", "part_000", "part_001"}

\* the mail settings of process.env: TRUE when the variable is set and non-empty
Envs ==
    {[BREVO_API_KEY |-> FALSE, SMTP_HOST |-> h, SMTP_USER |-> u, SMTP_PASS |-> p] :
        h \in BOOLEAN, u \in BOOLEAN, p \in BOOLEAN}
    \cup
    {[BREVO_API_KEY |-> TRUE, SMTP_HOST |-> x, SMTP_USER |-> x, SMTP_PASS |-> x] :
        x \in BOOLEAN}

smtpMissing == ~env.SMTP_HOST \/ ~env.SMTP_USER \/ ~env.SMTP_PASS

\* part_001 reads BREVO_API_KEY; server.js never does
useBrevo == file = "part_001" /\ env.BREVO_API_KEY

\* the allow-list when CORS_ORIGINS is not set
origins ==
    CASE file = "server.js" ->
            {"https://cwingo.github.io", "https://Cwingo.github.io",
             "https://cwingo242.github.io", "http://localhost:5173",
             "http://localhost:5174"}
      [] file = "part_000" ->
            {"https://cwingo.github.io", "https://Cwingo.github.io",
             "http://localhost:5173", "http://localhost:5174"}
      [] file = "part_001" ->
            {"https://cwingo.github.io", "https://Cwingo.github.io",
             "https://cwingo242.github.io", "http://localhost:5173"}

TO_EMAIL ==
    <<"c","m","w","i","n","g","o","@","e","m","a","i","l",".","s","c",".","e","d","u">>

FROM_EMAIL ==
    IF file # "part_001"
    THEN <<"b","m","D","u","b"," ","C","o","n","t","a","c","t"," ","<","n","o","-",
           "r","e","p","l","y","@","b","m","d","u","b",".","a","p","p",">">>
    ELSE <<"b","m","D","u","b"," ","C","o","n","t","a","c","t"," ","<","c","w","i",
           "n","g","o","6","4","@","g","m","a","i","l",".","c","o","m",">">>

\* rateLimit({ windowMs: 60_000, max: 5 })
windowMs == 60000
max == 5

TickMs == windowMs \div TicksPerWindow

-----------------------------------------------------------------------------
(* Requests *)

\* client addresses (req.ip)
Client == "203.0.113.5"
Other == "198.51.100.7"

NoOrigin == ""
Origins ==
    {NoOrigin, "https://cwingo.github.io", "https://CWINGO.github.io",
     "https://evil.example"}

GoodName == Str(<<"J","o">>)
BadName == Str(<<" ","J"," ">>)
GoodEmail == Str(<<"a","@","b",".","c","o">>)
BadEmail == Str(<<"a","@","b">>)
GoodSubject == Str(<<"H","i">>)
BadSubject == Str(<<" ","S"," ">>)
GoodMessage == Str(<<"0","1","2","3","4","5","6","7","8","9">>)
BadMessage == Str(<<" ","1","2","3","4","5","6","7","8","9"," ">>)
Spam == Str(<<" ","x"," ">>)
Blank == Str(<<" "," ">>)

Body(n, e, s, m, w) ==
    [name |-> n, email |-> e, subject |-> s, message |-> m,
     source |-> Undefined, website |-> w]

ValidBody == Body(GoodName, GoodEmail, GoodSubject, GoodMessage, Undefined)
JaneBody ==
    Body(Str(<<" ","J","a","n","e"," ","D","o","e"," ">>),
         Str(<<"j","a","n","e","@","e","x","a","m","p","l","e",".","c","o","m">>),
         Str(<<"H","e","l","l","o">>),
         Str(<<"a"," ","t","e","s","t"," ","m","s","g","\n">>),
         Blank)

\* the fields that fail are a prefix or a suffix of the four, or one alone
Combos ==
    {<<n, e, s, m>> \in
        {GoodName, BadName} \X {GoodEmail, BadEmail}
        \X {GoodSubject, BadSubject} \X {GoodMessage, BadMessage} :
        \/ (n = BadName => e = BadEmail) /\ (e = BadEmail => s = BadSubject)
           /\ (s = BadSubject => m = BadMessage)
        \/ (m = BadMessage => s = BadSubject) /\ (s = BadSubject => e = BadEmail)
           /\ (e = BadEmail => n = BadName)
        \/ Cardinality({x \in {n, e, s, m} :
                x \in {BadName, BadEmail, BadSubject, BadMessage}}) = 1}

Bodies ==
    {Body(c[1], c[2], c[3], c[4], Undefined) : c \in Combos}
    \cup {Body(n, e, GoodSubject, m, Spam) :
            n \in {GoodName, BadName}, e \in {GoodEmail, BadEmail},
            m \in {GoodMessage, BadMessage}}
    \cup {Body(n, GoodEmail, GoodSubject, GoodMessage, Undefined) :
            n \in {Undefined, False}}
    \cup {Body(GoodName, e, GoodSubject, GoodMessage, Undefined) :
            e \in {Undefined, Str(<<"a"," ","@","b",".","c","o">>),
                   Str(<<"a","@","b","@","c",".","d","e">>)}}
    \cup {Body(GoodName, GoodEmail, GoodSubject, m, Undefined) :
            m \in {Undefined}}
    \cup {Body(GoodName, GoodEmail, GoodSubject, GoodMessage, w) :
            w \in {Blank, False}}
    \cup {JaneBody}

\* a POST /contact request: the Origin header, the client address (req.ip),
\* whether express.json() can parse the body, and the parsed body
Requests ==
    [origin : {"https://cwingo.github.io"}, addr : {Client}, parse : {"ok"},
     body : Bodies]
    \cup
    [origin : Origins, addr : {Client}, parse : {"ok"},
     body : {ValidBody, Body(BadName, BadEmail, BadSubject, BadMessage, Spam)}]
    \cup
    [origin : {NoOrigin}, addr : {Client},
     parse : {"malformed", "too_large"}, body : {ValidBody}]

\* the requests of two clients that share the service
SharedRequests ==
    [origin : {NoOrigin}, addr : {Client, Other}, parse : {"ok"},
     body : {ValidBody, Body(GoodName, GoodEmail, GoodSubject, GoodMessage, Spam)}]

-----------------------------------------------------------------------------
(* Responses *)

NoResponse == [status |-> 0, json |-> FALSE, body |-> <<>>]
Json(status, body) == [status |-> status, json |-> TRUE, body |-> body]
\* res.send(text): the body is the text itself, here under the key "text"
Text(status, text) ==
    [status |-> status, json |-> FALSE, body |-> <<<<"text", text>>>>]

Skipped == Json(200, <<<<"ok", "true">>, <<"skip", "true">>>>)
Sent == Json(200, <<<<"ok", "true">>, <<"message", "Email sent successfully.">>>>)
BadRequest(msg) == Json(400, <<<<"error", msg>>>>)
ServerError(msg) == Json(500, <<<<"error", msg>>>>)
TooMany == Text(429, "Too many requests, please try again later.")

NameError ==
    IF file # "part_001" THEN "Name is required and must be at least 2 characters."
    ELSE "Name is required (min 2 chars)."
EmailError == "Invalid email address."
SubjectError ==
    IF file # "part_001" THEN "Subject is required and must be at least 2 characters."
    ELSE "Subject is required (min 2 chars)."
MessageError ==
    IF file # "part_001" THEN "Message is required and must be at least 10 characters."
    ELSE "Message is required (min 10 chars)."

-----------------------------------------------------------------------------
(* The middleware stack *)

\* what a request has gone through so far: err is the error passed to next(),
\* ended says whether a response was sent or the handler awaits the mail send
newCtx ==
    [err |-> FALSE, ended |-> "no", res |-> NoResponse, trace |-> <<>>,
     store |-> store, hits |-> 0, resetIn |-> 0, dispatch |-> <<>>,
     wire |-> <<>>]

pass(ctx, stage) == [ctx EXCEPT !.trace = Append(@, stage)]
fail(ctx, stage) == [ctx EXCEPT !.trace = Append(@, stage), !.err = TRUE]
respond(ctx, stage, res) ==
    [ctx EXCEPT !.trace = Append(@, stage), !.ended = "done", !.res = res]

\* the allow-list test done on lower-cased origins
foldCase(o) == IF o = "https://CWINGO.github.io" THEN "https://cwingo.github.io" ELSE o
corsIgnoresCase(ctx, req) ==
    IF req.origin = NoOrigin \/ foldCase(req.origin) \in origins
    THEN pass(ctx, "cors")
    ELSE fail(ctx, "cors")

\* cors({ origin: (origin, cb) => ... })
cors(ctx, req) ==
    IF req.origin = NoOrigin \/ req.origin \in origins
    THEN pass(ctx, "cors")
    ELSE fail(ctx, "cors")

\* express.json({ limit: '100kb' })
json(ctx, req) ==
    IF req.parse = "ok" THEN pass(ctx, "json") ELSE fail(ctx, "json")

\* the memory store's increment: a new window when none is open
increment(st, key) ==
    IF st[key].resetIn = 0
    THEN [st EXCEPT ![key] = [totalHits |-> 1, resetIn |-> windowMs]]
    ELSE [st EXCEPT ![key].totalHits = @ + 1]

\* the limiter answering 429 from the max-th hit on
limiterOffByOne(ctx, req) ==
    LET st == increment(ctx.store, req.addr)
        counted == [ctx EXCEPT !.store = st,
                               !.hits = st[req.addr].totalHits,
                               !.resetIn = st[req.addr].resetIn]
    IN  IF st[req.addr].totalHits >= max
        THEN respond(counted, "limiter", TooMany)
        ELSE pass(counted, "limiter")

\* app.use('/contact', limiter)
limiter(ctx, req) ==
    LET st == increment(ctx.store, req.addr)
        \* req.rateLimit and the RateLimit-* headers
        counted == [ctx EXCEPT !.store = st,
                               !.hits = st[req.addr].totalHits,
                               !.resetIn = st[req.addr].resetIn]
    IN  IF st[req.addr].totalHits > max
        THEN respond(counted, "limiter", TooMany)
        ELSE pass(counted, "limiter")

NewSubmission ==
    <<"\n","N","e","w"," ","c","o","n","t","a","c","t"," ","f","o","r","m"," ",
      "s","u","b","m","i","s","s","i","o","n","\n","\n","N","a","m","e",":"," ">>
EmailLabel == <<"\n","E","m","a","i","l",":"," ">>
SubjectLabel == <<"\n","S","u","b","j","e","c","t",":"," ">>
SourceLabel == <<"\n","S","o","u","r","c","e",":"," ">>
MessageLabel == <<"\n","\n","M","e","s","s","a","g","e",":","\n">>
SubjectPrefix ==
    <<"[","b","m","D","u","b"," ","C","o","n","t","a","c","t","]"," ">>

\* the template literal; part_001 ends it with a line break, part_000 does not
\* trim it
textOf(name, email, subject, source, message) ==
    LET raw == NewSubmission \o name \o EmailLabel \o email \o SubjectLabel
               \o subject \o SourceLabel
               \o (IF source = <<>> THEN <<"f","o","r","m">> ELSE source)
               \o MessageLabel \o message
               \o (IF file = "part_001" THEN <<"\n">> ELSE <<>>)
    IN  IF file = "part_000" THEN raw ELSE trim(raw)

\* the payload with the bare address as replyTo
payloadBareReplyTo(name, email, subject, source, message) ==
    [via |-> IF useBrevo THEN "brevo" ELSE "smtp",
     from |-> FROM_EMAIL,
     to |-> TO_EMAIL,
     replyTo |-> email,
     subject |-> SubjectPrefix \o subject,
     text |-> textOf(name, email, subject, source, message)]

payloadOf(name, email, subject, source, message) ==
    [via |-> IF useBrevo THEN "brevo" ELSE "smtp",
     from |-> FROM_EMAIL,
     to |-> TO_EMAIL,
     replyTo |-> name \o <<" ", "<">> \o email \o <<">">>,
     subject |-> SubjectPrefix \o subject,
     text |-> textOf(name, email, subject, source, message)]

\* the JSON body sendViaBrevoAPI posts to api.brevo.com
brevoBody(p) ==
    [sender |-> extractEmail(p.from),
     to |-> extractEmail(p.to),
     replyTo |-> IF p.replyTo # <<>> THEN extractEmail(p.replyTo) ELSE <<>>,
     subject |-> p.subject,
     textContent |-> p.text]

\* the handler with its tests rearranged: the honeypot test before or after the
\* rules, and the rules in the given order
handlerVariant(ctx, req, honeypotFirst, order) ==
    LET name == sanitize(req.body.name)
        email == sanitize(req.body.email)
        subject == sanitize(req.body.subject)
        message == sanitize(req.body.message)
        source == sanitize(req.body.source)
        honeypot == sanitize(req.body.website)
        payload == payloadOf(name, email, subject, source, message)
        fails(r) ==
            CASE r = "name" -> name = <<>> \/ Len(name) < 2
              [] r = "email" -> ~isEmail(email)
              [] r = "subject" -> subject = <<>> \/ Len(subject) < 2
              [] r = "message" -> message = <<>> \/ Len(message) < 10
        text(r) ==
            CASE r = "name" -> NameError
              [] r = "email" -> EmailError
              [] r = "subject" -> SubjectError
              [] r = "message" -> MessageError
        failed == {i \in 1..Len(order) : fails(order[i])}
        first == CHOOSE i \in failed : \A j \in failed : i <= j
    IN  IF honeypotFirst /\ honeypot # <<>> THEN respond(ctx, "contact", Skipped)
        ELSE IF failed # {}
        THEN respond(ctx, "contact", BadRequest(text(order[first])))
        ELSE IF honeypot # <<>> THEN respond(ctx, "contact", Skipped)
        ELSE [ctx EXCEPT !.trace = @ \o <<"contact", "send">>,
                         !.ended = "awaiting",
                         !.dispatch = <<payload>>,
                         !.wire = IF useBrevo THEN <<brevoBody(payload)>>
                                  ELSE <<>>]

contactValidatesFirst(ctx, req) ==
    handlerVariant(ctx, req, FALSE, <<"name", "email", "subject", "message">>)
contactMessageFirst(ctx, req) ==
    handlerVariant(ctx, req, TRUE, <<"message", "name", "email", "subject">>)
contactNoMessageRule(ctx, req) ==
    handlerVariant(ctx, req, TRUE, <<"name", "email", "subject">>)

\* app.post('/contact', ...) up to the await of the mail send
contact(ctx, req) ==
    LET name == sanitize(req.body.name)
        email == sanitize(req.body.email)
        subject == sanitize(req.body.subject)
        message == sanitize(req.body.message)
        source == sanitize(req.body.source)
        honeypot == sanitize(req.body.website)
        payload == payloadOf(name, email, subject, source, message)
    IN  IF honeypot # <<>> THEN respond(ctx, "contact", Skipped)
        ELSE IF name = <<>> \/ Len(name) < 2
        THEN respond(ctx, "contact", BadRequest(NameError))
        ELSE IF ~isEmail(email)
        THEN respond(ctx, "contact", BadRequest(EmailError))
        ELSE IF subject = <<>> \/ Len(subject) < 2
        THEN respond(ctx, "contact", BadRequest(SubjectError))
        ELSE IF message = <<>> \/ Len(message) < 10
        THEN respond(ctx, "contact", BadRequest(MessageError))
        ELSE [ctx EXCEPT !.trace = @ \o <<"contact", "send">>,
                         !.ended = "awaiting",
                         !.dispatch = <<payload>>,
                         !.wire = IF useBrevo THEN <<brevoBody(payload)>>
                                  ELSE <<>>]

\* an error handler that answers in plain text
errorHandlerPlain(ctx, req) ==
    respond(ctx, "errorHandler", Text(500, "Internal Server Error"))

\* app.use((err, _req, res, _next) => ...)
errorHandler(ctx, req) ==
    respond(ctx, "errorHandler", ServerError("Internal server error."))

\* the limiter registered ahead of the body parser
stackLimiterFirst == <<"cors", "limiter", "json", "contact", "errorHandler">>

\* the order of the app.use()/app.post() calls
stack == <<"cors", "json", "limiter", "contact", "errorHandler">>

apply(mw, ctx, req) ==
    CASE mw = "cors" -> cors(ctx, req)
      [] mw = "json" -> json(ctx, req)
      [] mw = "limiter" -> limiter(ctx, req)
      [] mw = "contact" -> contact(ctx, req)
      [] mw = "errorHandler" -> errorHandler(ctx, req)

\* Express's next(): an error skips to the next error-handling middleware
RECURSIVE handle(_, _, _)
handle(i, ctx, req) ==
    IF ctx.ended # "no" \/ i > Len(stack) THEN ctx
    ELSE IF ctx.err = (stack[i] = "errorHandler")
    THEN handle(i + 1, apply(stack[i], ctx, req), req)
    ELSE handle(i + 1, ctx, req)

-----------------------------------------------------------------------------
(* The mail backends *)

\* how the awaited send can end
Outcomes(via) ==
    IF via = "brevo"
    THEN {"2xx_json", "2xx_not_json", "non_2xx", "network_error"}
    ELSE {"sent", "smtp_error"}

\* sendViaBrevoAPI() without its resp.ok test
resolvesAnyStatus(outcome) == outcome \in {"2xx_json", "non_2xx", "sent"}

\* sendViaBrevoAPI() / transporter.sendMail() resolves
resolves(outcome) == outcome \in {"2xx_json", "sent"}

\* the catch block of the handler
caught(outcome) ==
    IF file = "server.js" THEN ServerError(outcome)
    ELSE ServerError("Failed to send email. Please try again later.")

settle(outcome) == IF resolves(outcome) THEN Sent ELSE caught(outcome)

-----------------------------------------------------------------------------
(* State machine *)

NoExchange ==
    [state |-> "none",
     req |-> [origin |-> NoOrigin, addr |-> "", parse |-> "ok", body |-> ValidBody],
     trace |-> <<>>, res |-> NoResponse, hits |-> 0, resetIn |-> 0,
     dispatch |-> <<>>, wire |-> <<>>, outcome |-> "none"]

Init ==
    /\ file \in Files
    /\ env \in Envs
    /\ phase = "boot"
    /\ exitCode = -1
    /\ transporter = "null"
    /\ store = [a \in {Client} |-> [totalHits |-> 0, resetIn |-> 0]]
    /\ cur = NoExchange
    /\ limited = {}

\* the same process serving two client addresses
InitShared ==
    /\ file \in Files
    /\ env \in Envs
    /\ phase = "boot"
    /\ exitCode = -1
    /\ transporter = "null"
    /\ store = [a \in {Client, Other} |-> [totalHits |-> 0, resetIn |-> 0]]
    /\ cur = NoExchange
    /\ limited = {}

\* every variant insisting on the SMTP settings
StartupNeedsSmtp ==
    /\ phase = "boot"
    /\ IF smtpMissing
       THEN /\ phase' = "exited"
            /\ exitCode' = 1
            /\ transporter' = transporter
       ELSE /\ phase' = "serving"
            /\ exitCode' = exitCode
            /\ transporter' = IF useBrevo THEN "null" ELSE "smtp"
    /\ UNCHANGED <<file, env, store, cur, limited>>

\* module load: the configuration check, createTransport() and app.listen()
Startup ==
    /\ phase = "boot"
    /\ IF (file # "part_001" \/ ~env.BREVO_API_KEY) /\ smtpMissing
       THEN /\ phase' = "exited"
            /\ exitCode' = 1
            /\ transporter' = transporter
       ELSE /\ phase' = "serving"
            /\ exitCode' = exitCode
            /\ transporter' = IF useBrevo THEN "null" ELSE "smtp"
    /\ UNCHANGED <<file, env, store, cur, limited>>

\* a POST /contact request runs down the stack until it is answered or the
\* handler suspends on the mail send
Contact(req) ==
    /\ phase = "serving"
    /\ cur.state # "awaiting"
    /\ store[req.addr].resetIn = 0 \/ store[req.addr].totalHits < MaxHits
    /\ \E out \in {handle(1, newCtx, req)} :
           /\ cur' = [state |-> out.ended, req |-> req, trace |-> out.trace,
                      res |-> out.res, hits |-> out.hits,
                      resetIn |-> out.resetIn, dispatch |-> out.dispatch,
                      wire |-> out.wire, outcome |-> "none"]
           /\ store' = out.store
           /\ limited' = IF out.res.status = 429
                         THEN limited \cup {req.addr} ELSE limited
    /\ UNCHANGED <<file, env, phase, exitCode, transporter>>

\* the awaited send settles and the handler answers
SendSettles ==
    /\ phase = "serving"
    /\ cur.state = "awaiting"
    /\ \E o \in Outcomes(cur.dispatch[1].via) :
        cur' = [cur EXCEPT !.state = "done", !.outcome = o, !.res = settle(o),
                           !.trace = Append(@, "respond")]
    /\ UNCHANGED <<file, env, phase, exitCode, transporter, store, limited>>

\* TickMs of wall-clock time pass; a window whose reset time is reached closes
Tick ==
    /\ phase = "serving"
    /\ \E a \in DOMAIN store : store[a].resetIn > 0
    /\ store' = [a \in DOMAIN store |->
                    IF store[a].resetIn <= TickMs
                    THEN [totalHits |-> 0, resetIn |-> 0]
                    ELSE [store[a] EXCEPT !.resetIn = @ - TickMs]]
    /\ UNCHANGED <<file, env, phase, exitCode, transporter, cur, limited>>

Next ==
    \/ Startup
    \/ \E req \in Requests : Contact(req)
    \/ SendSettles
    \/ Tick

Spec == Init /\ [][Next]_vars

NextShared ==
    \/ Startup
    \/ \E req \in SharedRequests : Contact(req)
    \/ SendSettles
    \/ Tick

SpecShared == InitShared /\ [][NextShared]_vars

-----------------------------------------------------------------------------
(* The exchange being followed, as the properties below read it *)

Followed == cur.state # "none"
Admitted == cur.req.origin = NoOrigin \/ cur.req.origin \in origins
Parsed == cur.req.parse = "ok"
Counted == cur.hits > 0
WithinQuota == cur.hits \in 1..max

theName == sanitize(cur.req.body.name)
theEmail == sanitize(cur.req.body.email)
theSubject == sanitize(cur.req.body.subject)
theMessage == sanitize(cur.req.body.message)
theHoneypot == sanitize(cur.req.body.website)

NameOk == Len(theName) >= 2
EmailOk == isEmail(theEmail)
SubjectOk == Len(theSubject) >= 2
MessageOk == Len(theMessage) >= 10

InternalError == Json(500, <<<<"error", "Internal server error.">>>>)

-----------------------------------------------------------------------------
(* C1 *)

\* C1 as stated: every parsed POST /contact request that the CORS gate admits
\* and whose website field is non-empty after trimming is answered
\* 200 {ok:true, skip:true} and sends no mail, after any earlier requests
\* from the same address.
C1_Original ==
    (Followed /\ Admitted /\ Parsed /\ theHoneypot # <<>>)
        => (cur.res = Skipped /\ cur.dispatch = <<>>)

\* C1, amended: such a request never sends mail and is answered at once; it is
\* answered 200 {ok:true, skip:true}, whatever its other fields, when it is
\* among the first 5 requests of its address in the limiter's window, and 429
\* by the limiter from the 6th on.
C1_Honeypot ==
    (Followed /\ Admitted /\ Parsed /\ theHoneypot # <<>>)
        => /\ cur.state = "done"
           /\ cur.dispatch = <<>>
           /\ Counted
           /\ WithinQuota => cur.res = Skipped
           /\ ~WithinQuota => cur.res = TooMany

\* the 5th request of a window, every other field invalid, is skipped
C1_Witness ==
    /\ cur.state = "done"
    /\ cur.req.body = Body(BadName, BadEmail, GoodSubject, BadMessage, Spam)
    /\ cur.hits = max
    /\ cur.res = Skipped
    /\ cur.dispatch = <<>>

-----------------------------------------------------------------------------
(* C2 *)

-----------------------------------------------------------------------------
(* C3 *)

\* C3: a request whose Origin header equals no allow-list entry, character
\* for character, is turned away by the CORS gate: the body parser, the
\* limiter and the handler never run for it, it is not counted and sends no
\* mail. A request without Origin header, or with an Origin of the allow-list,
\* goes on to the body parser.
C3_Cors ==
    Followed =>
        IF Admitted
        THEN /\ Len(cur.trace) >= 2
             /\ cur.trace[1] = "cors"
             /\ cur.trace[2] = "json"
        ELSE /\ cur.state = "done"
             /\ cur.trace = <<"cors", "errorHandler">>
             /\ ~Counted
             /\ cur.dispatch = <<>>
             /\ cur.res.status = 500

\* an origin that differs from an allow-list entry only in case is rejected
\* while the address has an open window that does not count it
C3_Witness ==
    /\ cur.state = "done"
    /\ cur.req.origin = "https://CWINGO.github.io"
    /\ cur.req.body = ValidBody
    /\ cur.res.status = 500
    /\ store[Client].totalHits = 2

-----------------------------------------------------------------------------
(* C4 *)

BackendFailed == cur.outcome \in {"smtp_error", "non_2xx", "network_error"}

\* C4: when the mail backend fails (sendMail rejects, the mail API answers a
\* non-success status or cannot be reached), the request is answered 500, not
\* with the success body, and the send was attempted once.
C4_Failure ==
    (cur.state = "done" /\ BackendFailed)
        => /\ cur.res.status = 500
           /\ cur.res.json
           /\ cur.res # Sent
           /\ Len(cur.dispatch) = 1

\* the mail API answered a non-success status
C4_Witness ==
    /\ cur.state = "done"
    /\ cur.outcome = "non_2xx"
    /\ cur.res.status = 500
    /\ Len(cur.dispatch) = 1

-----------------------------------------------------------------------------
(* C5 *)

\* C5: a request with an empty honeypot whose fields pass the four rules,
\* admitted by the CORS gate and the limiter, is dispatched exactly once, with
\* replyTo "<name> <<email>>" and subject "[bmDub Contact] <subject>" built
\* from the trimmed fields; when the send resolves the answer is
\* 200 {ok:true, message:"Email sent successfully."}.
C5_ValidSubmission ==
    (/\ Followed /\ Admitted /\ Parsed /\ WithinQuota
     /\ theHoneypot = <<>>
     /\ NameOk /\ EmailOk /\ SubjectOk /\ MessageOk)
        => /\ Len(cur.dispatch) = 1
           /\ cur.dispatch[1].replyTo
                = theName \o <<" ", "<">> \o theEmail \o <<">">>
           /\ cur.dispatch[1].subject = SubjectPrefix \o theSubject
           /\ cur.state = "awaiting" <=> cur.outcome = "none"
           /\ (cur.state = "done" /\ resolves(cur.outcome)) =>
                cur.res = Json(200, <<<<"ok", "true">>,
                                      <<"message", "Email sent successfully.">>>>)

\* Jane Doe's submission, padded with white space, was sent
C5_Witness ==
    /\ cur.state = "done"
    /\ cur.req.body = JaneBody
    /\ Len(cur.dispatch) = 1
    /\ cur.dispatch[1].replyTo =
        <<"J","a","n","e"," ","D","o","e"," ","<","j","a","n","e","@","e","x",
          "a","m","p","l","e",".","c","o","m",">">>
    /\ cur.dispatch[1].subject =
        <<"[","b","m","D","u","b"," ","C","o","n","t","a","c","t","]"," ",
          "H","e","l","l","o">>
    /\ cur.res = Sent

-----------------------------------------------------------------------------
(* C6 *)

Validated ==
    /\ Followed /\ Admitted /\ Parsed /\ WithinQuota
    /\ theHoneypot = <<>>

FirstFailure ==
    IF ~NameOk THEN "name"
    ELSE IF ~EmailOk THEN "email"
    ELSE IF ~SubjectOk THEN "subject"
    ELSE IF ~MessageOk THEN "message"
    ELSE "none"

LongText(rule) ==
    CASE rule = "name" -> "Name is required and must be at least 2 characters."
      [] rule = "email" -> "Invalid email address."
      [] rule = "subject" ->
            "Subject is required and must be at least 2 characters."
      [] rule = "message" ->
            "Message is required and must be at least 10 characters."

ShortText(rule) ==
    CASE rule = "name" -> "Name is required (min 2 chars)."
      [] rule = "email" -> "Invalid email address."
      [] rule = "subject" -> "Subject is required (min 2 chars)."
      [] rule = "message" -> "Message is required (min 10 chars)."

\* C6 as stated: the rules are tried in the order name, email, subject,
\* message on the trimmed values and the answer is 400 with the one message
\* of the first rule that fails, in the wording "... is required and must be
\* at least N characters." / "Invalid email address."
C6_Original ==
    (Validated /\ FirstFailure # "none")
        => cur.res = Json(400, <<<<"error", LongText(FirstFailure)>>>>)

\* C6, amended: the same order and thresholds in every variant, and a request
\* that passes all four rules (a message of exactly 10 characters passes) is
\* not answered 400; the wording is the one stated in server.js and part_000,
\* while part_001 says "Name is required (min 2 chars).", "Subject is required
\* (min 2 chars)." and "Message is required (min 10 chars).".
C6_Validation ==
    Validated =>
        IF FirstFailure = "none" THEN cur.res.status # 400
        ELSE /\ cur.state = "done"
             /\ cur.dispatch = <<>>
             /\ cur.res =
                  Json(400, <<<<"error",
                                IF file = "part_001" THEN ShortText(FirstFailure)
                                ELSE LongText(FirstFailure)>>>>)

\* name passes, the other three fail: the e-mail message is the one reported
C6_Witness ==
    /\ cur.state = "done"
    /\ cur.req.body = Body(GoodName, BadEmail, BadSubject, BadMessage, Undefined)
    /\ cur.res = Json(400, <<<<"error", "Invalid email address.">>>>)

-----------------------------------------------------------------------------
(* C7 *)

Exited == phase = "exited" /\ exitCode = 1 /\ cur = NoExchange
Serving == phase = "serving" /\ exitCode = -1

\* C7 as stated: with an API key the HTTP mail API is the backend and the
\* service starts whatever the SMTP settings; without one SMTP is the backend
\* and the process exits non-zero, before serving, exactly when SMTP_HOST,
\* SMTP_USER or SMTP_PASS is missing.
C7_Original ==
    phase # "boot" =>
        IF env.BREVO_API_KEY
        THEN /\ Serving
             /\ transporter = "null"
             /\ cur.dispatch # <<>> => cur.dispatch[1].via = "brevo"
        ELSE /\ IF smtpMissing THEN Exited ELSE Serving
             /\ Serving => transporter = "smtp"
             /\ cur.dispatch # <<>> => cur.dispatch[1].via = "smtp"

\* C7, amended: this holds of part_001, the variant that has the HTTP mail
\* API. server.js and part_000 never read the API key: their backend is SMTP
\* and they exit non-zero, before serving, exactly when SMTP_HOST, SMTP_USER
\* or SMTP_PASS is missing, with or without a key.
C7_Startup ==
    phase # "boot" =>
        IF file = "part_001" /\ env.BREVO_API_KEY
        THEN /\ Serving
             /\ transporter = "null"
             /\ cur.dispatch # <<>> => cur.dispatch[1].via = "brevo"
        ELSE /\ IF smtpMissing THEN Exited ELSE Serving
             /\ Serving => transporter = "smtp"
             /\ cur.dispatch # <<>> => cur.dispatch[1].via = "smtp"

\* part_001 with a key and no SMTP settings has served a submission
C7_Witness ==
    /\ file = "part_001"
    /\ env.BREVO_API_KEY
    /\ ~env.SMTP_HOST /\ ~env.SMTP_USER /\ ~env.SMTP_PASS
    /\ phase = "serving"
    /\ cur.res = Sent
    /\ cur.dispatch[1].via = "brevo"

-----------------------------------------------------------------------------
(* C8 *)

\* C8 as stated: the rejection of an origin outside the allow-list does not
\* reach the caller as a JSON body, in particular not as the catch-all
\* handler's 500 {error:"Internal server error."}.
C8_Original ==
    (Followed /\ ~Admitted) => (~cur.res.json /\ cur.res # InternalError)

\* C8, amended: the gate passes its error to next(), so the rejection is
\* answered by the catch-all handler, as JSON: 500 {error:"Internal server
\* error."}.
C8_Rejection ==
    (Followed /\ ~Admitted)
        => /\ cur.res = InternalError
           /\ cur.trace[Len(cur.trace)] = "errorHandler"

\* https://evil.example is answered by the catch-all handler
C8_Witness ==
    /\ cur.req.origin = "https://evil.example"
    /\ cur.state = "done"
    /\ cur.res = InternalError

-----------------------------------------------------------------------------
(* C9 *)

StagesStated == <<"cors", "limiter", "json", "contact", "send", "respond">>
Stages == <<"cors", "json", "limiter", "contact", "send", "respond">>

\* the stages run one after the other in the order of `order`, up to the one
\* that answers or fails, the error handler answering after a failure
RunsInOrder(order) ==
    \E n \in 1..Len(order) :
        \/ cur.trace = SubSeq(order, 1, n)
        \/ cur.trace = SubSeq(order, 1, n) \o <<"errorHandler">>

\* C9 as stated: the stages run in the order CORS gate, rate limiter, body
\* parser, validation, dispatch, and a request whose body fails to parse has
\* been counted by the limiter.
C9_Original ==
    Followed => /\ RunsInOrder(StagesStated)
                /\ (Admitted /\ ~Parsed) => Counted

\* C9, amended: the order is CORS gate, body parser, rate limiter,
\* validation, dispatch; a request whose body fails to parse is answered by
\* the catch-all handler before the limiter runs and consumes no quota.
C9_Order ==
    Followed => /\ RunsInOrder(Stages)
                /\ (Admitted /\ ~Parsed) =>
                      /\ cur.trace = <<"cors", "json", "errorHandler">>
                      /\ ~Counted
                      /\ cur.res = InternalError
                      /\ cur.dispatch = <<>>

\* a malformed body arrives while the address has two hits in its window and
\* leaves them at two
C9_Witness ==
    /\ cur.state = "done"
    /\ cur.req.parse = "malformed"
    /\ cur.hits = 0
    /\ store[Client].totalHits = 2
    /\ cur.res.status = 500

-----------------------------------------------------------------------------
(* C10 *)

\* C10: a mail dispatch has been attempted for a request only if its honeypot
\* was empty and its trimmed name, email, subject and message were non-empty
\* and passed their rules; a request answered 400 or skipped has caused no
\* send.
C10_DispatchOnlyValid ==
    /\ cur.dispatch # <<>> =>
        /\ theHoneypot = <<>>
        /\ theName # <<>> /\ NameOk
        /\ theEmail # <<>> /\ EmailOk
        /\ theSubject # <<>> /\ SubjectOk
        /\ theMessage # <<>> /\ MessageOk
    /\ (cur.res.status = 400 \/ cur.res = Skipped) => cur.dispatch = <<>>

\* a submission whose fields are valid only once trimmed is being sent
C10_Witness ==
    /\ cur.state = "awaiting"
    /\ cur.req.body = JaneBody
    /\ Len(cur.dispatch) = 1
    /\ theMessage = <<"a"," ","t","e","s","t"," ","m","s","g">>

====
